---- MODULE Spec2Model ----
(***************************************************************************)
(* Fill-in-the-blank exercises: the useBlanks hook (bracket parser, tree   *)
(* walker, per-blank validation state) and the InlineBlanks component      *)
(* (completion bridge, inline display, table path).                        *)
(*                                                                         *)
(* A JavaScript string is a sequence of one-character strings, so that     *)
(* trim, toLowerCase, startsWith, split and slice are computed and not     *)
(* assumed.  An array index of the code is 0-based; sequences are 1-based, *)
(* so index k of the code is position k + 1 here.                          *)
(***************************************************************************)
EXTENDS Integers, Sequences, FiniteSets, TLC

VARIABLES
    children,       \* the children prop: an array of content nodes
    mode,           \* the mode prop: "type" or "picker"
    optionsProp,    \* "default": options omitted (a new [] each render); "passed"
    blanksData,     \* useMemo over children: the parsed blanks
    inputs,         \* useState: string[]
    touched,        \* useState: boolean[]
    blurred,        \* useState: boolean[]
    showHintFor,    \* useState: boolean[]
    submitted,      \* useState: boolean
    showAnswers,    \* useState: boolean
    rcBlurred,      \* blurred as captured by the memoised renderContent
    rbTouched,      \* touched as captured by the memoised renderBlank
    rbBlurred,      \* blurred as captured by the memoised renderBlank
    exerciseIdRef,  \* useRef<string>('')
    isCompleted,    \* useState: boolean
    pendIdEffect,   \* the exercise id effect is scheduled for the last commit
    pendDoneEffect, \* the completion effect is scheduled for the last commit
    notified,       \* calls of markExerciseComplete for the identity now mounted
    aborted,        \* a render raised an exception
    changes,        \* renders by the parent that passed new children (history)
    lastOp,         \* the last operation applied (history)
    pfPc,           \* position of the pure-function harness
    pfIn,           \* its input
    pfOut           \* its output

vars == << children, mode, optionsProp, blanksData, inputs, touched, blurred,
           showHintFor, submitted, showAnswers, rcBlurred, rbTouched, rbBlurred,
           exerciseIdRef, isCompleted, pendIdEffect, pendDoneEffect, notified,
           aborted, changes, lastOp, pfPc, pfIn, pfOut >>

uiVars == << children, mode, optionsProp, blanksData, inputs, touched, blurred,
             showHintFor, submitted, showAnswers, rcBlurred, rbTouched, rbBlurred,
             exerciseIdRef, isCompleted, pendIdEffect, pendDoneEffect, notified,
             aborted, changes, lastOp >>

pfVars == << pfPc, pfIn, pfOut >>

-----------------------------------------------------------------------------
(* Bounds *)

\* longest text handed to the parser harness
MaxTextLen == 4
\* longest children array handed to the walker harness
MaxKids == 2
\* renders by the parent that pass new children, per mount
MaxChildrenChanges == 1
\* longest localOptions and longest options handed to the picker harness
MaxOptions == 2
\* longest text handed to the table harness
MaxTableLen == 5

-----------------------------------------------------------------------------
(* JavaScript strings *)

Min(S) == CHOOSE x \in S : \A y \in S : x <= y

Max(S) == CHOOSE x \in S : \A y \in S : y <= x

\* String.prototype.trim strips white space and line terminators
IsSpace(c) == c \in {" ", "\n", "\t", "\r"}

\* '.' of a regular expression without the s flag matches no line terminator
IsLineTerminator(c) == c \in {"\n", "\r"}

UpperChars == << "A", "B", "C", "D", "E", "F", "G", "H", "I", "J", "K", "L", "M",
                 "N", "O", "P", "Q", "R", "S", "T", "U", "V", "W", "X", "Y", "Z" >>

LowerChars == << "a", "b", "c", "d", "e", "f", "g", "h", "i", "j", "k", "l", "m",
                 "n", "o", "p", "q", "r", "s", "t", "u", "v", "w", "x", "y", "z" >>

LowerChar(c) ==
    IF \E k \in 1..Len(UpperChars) : UpperChars[k] = c
    THEN LowerChars[CHOOSE k \in 1..Len(UpperChars) : UpperChars[k] = c]
    ELSE c

ToLowerCase(s) == [k \in 1..Len(s) |-> LowerChar(s[k])]

Trim(s) ==
    LET keep == {k \in 1..Len(s) : ~IsSpace(s[k])}
    IN  IF keep = {} THEN << >> ELSE SubSeq(s, Min(keep), Max(keep))

StartsWith(s, p) == Len(p) <= Len(s) /\ SubSeq(s, 1, Len(p)) = p

EndsWith(s, p) == Len(p) <= Len(s) /\ SubSeq(s, Len(s) - Len(p) + 1, Len(s)) = p

\* end of the match of /\[.*?\]/ that starts at position i of s, 0 if none:
\* the first ']' after i, provided no line terminator comes before it
MatchEnd(s, i) ==
    IF s[i] # "["
    THEN 0
    ELSE LET stops == {j \in (i + 1)..Len(s) : s[j] = "]" \/ IsLineTerminator(s[j])}
         IN  IF stops = {} THEN 0
             ELSE IF s[Min(stops)] = "]" THEN Min(stops) ELSE 0

\* s.split(/(\[.*?\])/g) from position p on: literal, match, literal, ...
RECURSIVE SplitFrom(_, _)
SplitFrom(s, p) ==
    LET starts == {i \in p..Len(s) : MatchEnd(s, i) # 0}
    IN  IF starts = {}
        THEN << SubSeq(s, p, Len(s)) >>
        ELSE LET i == Min(starts)
                 j == MatchEnd(s, i)
             IN  << SubSeq(s, p, i - 1), SubSeq(s, i, j) >> \o SplitFrom(s, j + 1)

SplitBlanks(s) == SplitFrom(s, 1)

\* s.split('|')
RECURSIVE SplitPipeFrom(_, _)
SplitPipeFrom(s, p) ==
    LET bars == {i \in p..Len(s) : s[i] = "|"}
    IN  IF bars = {}
        THEN << SubSeq(s, p, Len(s)) >>
        ELSE << SubSeq(s, p, Min(bars) - 1) >> \o SplitPipeFrom(s, Min(bars) + 1)

SplitPipe(s) == SplitPipeFrom(s, 1)

\* part.startsWith('[') && part.endsWith(']')
IsBlankPart(p) == StartsWith(p, << "[" >>) /\ EndsWith(p, << "]" >>)

-----------------------------------------------------------------------------
(* The parser of useBlanks *)

HintPrefix == << "h", "i", "n", "t", ":" >>

\* items[i].substring(5)
HintSkip == 5

\* the for loop over items[1..]: acc is [hint, localOptions]; a hint is << >>
\* while undefined and << text >> once set
RECURSIVE ScanItems(_, _, _)
ScanItems(items, i, acc) ==
    IF i > Len(items)
    THEN acc
    ELSE IF StartsWith(items[i], HintPrefix)
         THEN ScanItems(items, i + 1,
                        [acc EXCEPT !.hint =
                            << SubSeq(items[i], HintSkip + 1, Len(items[i])) >>])
         ELSE ScanItems(items, i + 1,
                        [acc EXCEPT !.localOptions = Append(@, items[i])])

ParseBlank(p) ==
    LET content == SubSeq(p, 2, Len(p) - 1)
        items == SplitPipe(content)
        rest == ScanItems(items, 2, [hint |-> << >>, localOptions |-> << >>])
    IN  [answer |-> items[1], localOptions |-> rest.localOptions, hint |-> rest.hint]

RECURSIVE MapParse(_)
MapParse(parts) ==
    IF parts = << >>
    THEN << >>
    ELSE IF IsBlankPart(Head(parts))
         THEN << ParseBlank(Head(parts)) >> \o MapParse(Tail(parts))
         ELSE MapParse(Tail(parts))

ParseBlanks(text) == MapParse(SplitBlanks(text))

-----------------------------------------------------------------------------
(* Content trees (React nodes)                                             *)
(* A node is [tag, text, kids]: tag "#text" is a string leaf, "#num" a     *)
(* number leaf (text holds its digits), any other tag an element whose     *)
(* props.children is the array kids (<< >>: no children).                  *)

TextLeaf(s) == [tag |-> "#text", text |-> s, kids |-> << >>]

NumLeaf(s) == [tag |-> "#num", text |-> s, kids |-> << >>]

Element(t, ks) == [tag |-> t, text |-> << >>, kids |-> ks]

IsElement(n) == n.tag \notin {"#text", "#num"}

\* getTextFromChildren: TextOfNode is the call on one node, TextOfArray the
\* call on an array (Array.isArray branch, lines 48-61)
RECURSIVE TextOfNode(_), TextOfArray(_, _)
TextOfNode(n) ==
    IF ~IsElement(n)
    THEN n.text
    ELSE IF n.tag = "br"
         THEN << "\n" >>
         ELSE IF n.kids # << >>
              THEN TextOfArray(n.kids, 1)
                     \o (IF n.tag \in {"p", "div"} THEN << "\n" >> ELSE << >>)
              ELSE << >>

TextOfArray(arr, idx) ==
    IF idx > Len(arr)
    THEN << >>
    ELSE TextOfNode(arr[idx])
           \o (IF IsElement(arr[idx]) /\ arr[idx].tag \in {"p", "div", "li", "br"}
                  /\ idx < Len(arr)
               THEN << "\n" >> ELSE << >>)
           \o TextOfArray(arr, idx + 1)

GetTextFromChildren(node) == TextOfArray(node, 1)

-----------------------------------------------------------------------------
(* The tree walker of renderContent (processNode)                          *)
(* The walk threads acc = [ctr, calls, out]: ctr is blankIndexCounter,     *)
(* calls the renderBlank calls made so far as [index, data, token], out    *)
(* the nodes produced.  A rendered blank is the node "#blank" whose text   *)
(* is the token it replaced.                                               *)

BlankNode(index, token) == [tag |-> "#blank", text |-> token, kids |-> << >>]

\* parts.map over the split of one string child (lines 231-258)
RECURSIVE WalkParts(_, _, _)
WalkParts(parts, specs, acc) ==
    IF parts = << >>
    THEN acc
    ELSE LET part == Head(parts)
         IN  IF IsBlankPart(part)
             THEN IF acc.ctr >= Len(specs)
                  THEN WalkParts(Tail(parts), specs,
                                 [acc EXCEPT !.out = Append(@, TextLeaf(part))])
                  ELSE WalkParts(Tail(parts), specs,
                                 [ctr |-> acc.ctr + 1,
                                  calls |-> Append(acc.calls,
                                                   [index |-> acc.ctr,
                                                    data |-> specs[acc.ctr + 1],
                                                    token |-> part]),
                                  out |-> Append(acc.out, BlankNode(acc.ctr, part))])
             ELSE WalkParts(Tail(parts), specs,
                            [acc EXCEPT !.out = Append(@, TextLeaf(part))])

\* React.Children.map(node, child => ...) (lines 227-274)
RECURSIVE ProcessNode(_, _, _)
ProcessNode(nodes, specs, acc) ==
    IF nodes = << >>
    THEN acc
    ELSE LET child == Head(nodes)
         IN  IF child.tag = "#text"
             THEN ProcessNode(Tail(nodes), specs,
                              WalkParts(SplitBlanks(child.text), specs, acc))
             ELSE IF IsElement(child) /\ child.kids # << >>
                  THEN LET sub == ProcessNode(child.kids, specs,
                                              [acc EXCEPT !.out = << >>])
                       IN  ProcessNode(Tail(nodes), specs,
                                       [ctr |-> sub.ctr,
                                        calls |-> sub.calls,
                                        out |-> Append(acc.out,
                                                       Element(child.tag, sub.out))])
                  ELSE ProcessNode(Tail(nodes), specs,
                                   [acc EXCEPT !.out = Append(@, child)])

RenderContent_OffByOne(node, specs) ==
    ProcessNode(node,
                Append(specs, [answer |-> << >>, localOptions |-> << >>, hint |-> << >>]),
                [ctr |-> 0, calls |-> << >>, out |-> << >>])

\* renderContent(renderBlank): blankIndexCounter = 0, processNode(children)
RenderContent(node, specs) ==
    ProcessNode(node, specs, [ctr |-> 0, calls |-> << >>, out |-> << >>])

-----------------------------------------------------------------------------
(* JavaScript arrays of the hook state                                     *)
(* An entry of inputs is a string, or one of two values no string equals:  *)
(* Hole (an index never written, left by next[index] = v past the end) and *)
(* Undefined (what spreading [...prev] makes of a hole).  The boolean      *)
(* arrays are only read through truthiness, so their holes are FALSE.      *)

Hole == << "#hole" >>

Undefined == << "#undefined" >>

Fill(n, v) == [k \in 1..n |-> v]

\* [...prev]
Spread(arr) == [k \in 1..Len(arr) |-> IF arr[k] = Hole THEN Undefined ELSE arr[k]]

\* next[index] = v
SetAt(arr, index, v, gap) ==
    IF index < Len(arr)
    THEN [arr EXCEPT ![index + 1] = v]
    ELSE arr \o Fill(index - Len(arr), gap) \o << v >>

\* inputs[index] || ''
ValueIn(arr, index) ==
    IF index < Len(arr) /\ arr[index + 1] \notin {Hole, Undefined}
    THEN arr[index + 1]
    ELSE << >>

\* truthiness of arr[index]
BoolAt(arr, index) == index < Len(arr) /\ arr[index + 1]

Value(index) == ValueIn(inputs, index)

\* answers = blanksData.map(b => b.answer)
AnswersOf(data) == [k \in 1..Len(data) |-> data[k].answer]

\* inputs.every((val, idx) => val.trim().toLowerCase() === answers[idx].toLowerCase())
\* from position k on: "true", "false", or "throw" (a TypeError: val or
\* answers[idx] is undefined); every() skips holes and stops at the first false
RECURSIVE EveryFrom(_, _, _)
EveryFrom(inp, ans, k) ==
    IF k > Len(inp)
    THEN "true"
    ELSE IF inp[k] = Hole
         THEN EveryFrom(inp, ans, k + 1)
         ELSE IF inp[k] = Undefined \/ k > Len(ans)
              THEN "throw"
              ELSE IF ToLowerCase(Trim(inp[k])) = ToLowerCase(ans[k])
                   THEN EveryFrom(inp, ans, k + 1)
                   ELSE "false"

AllCorrectOf(inp, data) == EveryFrom(inp, AnswersOf(data), 1)

AllCorrect == AllCorrectOf(inputs, blanksData)

-----------------------------------------------------------------------------
(* The status of blank index, on the three render paths *)

AnswerOf(index) == blanksData[index + 1].answer

BlankIndices == 0..(Len(blanksData) - 1)

\* tree-render path: renderContent, lines 238-249; blurred is not among the
\* dependencies of the useCallback, so the callback reads rcBlurred
TreeIsCorrect(index) == ToLowerCase(Trim(Value(index))) = ToLowerCase(AnswerOf(index))

TreeShowValidation_TouchedOnly(index) == submitted \/ BoolAt(touched, index)

TreeShowValidation(index) ==
    submitted \/ (BoolAt(touched, index) /\ Trim(Value(index)) # << >>)

IsPartialMatch(index) ==
    /\ Len(Trim(Value(index))) > 0
    /\ StartsWith(ToLowerCase(AnswerOf(index)), ToLowerCase(Trim(Value(index))))

TreeIsWrong_NoPartial(index) == TreeShowValidation(index) /\ ~TreeIsCorrect(index)

TreeIsWrong(index) ==
    /\ TreeShowValidation(index)
    /\ ~TreeIsCorrect(index)
    /\ (submitted \/ (~IsPartialMatch(index) \/ BoolAt(rcBlurred, index)))

\* inline display: renderBlank, lines 139-143; touched and blurred are not
\* among the dependencies of the useCallback, so it reads rbTouched, rbBlurred
InlineShowValidation(index) ==
    BoolAt(rbTouched, index) /\ BoolAt(rbBlurred, index) /\ Trim(Value(index)) # << >>

InlineIsRight(index) == InlineShowValidation(index) /\ TreeIsCorrect(index)

InlineIsWrong(index) == InlineShowValidation(index) /\ ~TreeIsCorrect(index)

\* table path: InlineMarkdownBlank, lines 39-49, reading the context value
\* built on the current render
TableShowValidation(index) ==
    BoolAt(touched, index) /\ BoolAt(blurred, index) /\ Trim(Value(index)) # << >>

TableIsWrong(index) == TableShowValidation(index) /\ ~TreeIsCorrect(index)

-----------------------------------------------------------------------------
(* The component *)

\* contents the component is mounted with or re-rendered with
KPlain == << TextLeaf(<< "n", "o" >>) >>

KOne == << TextLeaf(<< "[", "P", "a", "]" >>) >>

KPadded == << TextLeaf(<< "[", " ", "x", "]" >>) >>

KTwo == << TextLeaf(<< "[", "P", "a", "]" >>),
           Element("b", << TextLeaf(<< "[", " ", "x", "|", "h", "i", "n", "t", ":", "h", "]" >>) >>) >>

\* the contents explored in each mode: free text on at most one blank,
\* the picker on up to two
ContentsFor(m) == IF m = "type" THEN {KPlain, KOne, KPadded} ELSE {KPlain, KTwo}

\* what the user types into a text field
Values == { << >>, << "P" >>, << " ", "p", "a" >>, << "x" >> }

\* the options prop when the parent passes one
OptionsPassed == << << "P" >> >>

Options == IF optionsProp = "default" THEN << >> ELSE OptionsPassed

\* renderBlank, lines 135-136: the values of the <option>s of the select
CurrentOptions(index) ==
    IF Len(blanksData[index + 1].localOptions) > 0
    THEN blanksData[index + 1].localOptions
    ELSE Options

DropdownChoices(index) ==
    {CurrentOptions(index)[k] : k \in 1..Len(CurrentOptions(index))}
      \cup {blanksData[index + 1].answer}

\* what onChange can deliver for blank index
Choices(index) == IF mode = "picker" THEN DropdownChoices(index) ELSE Values

\* generateStableExerciseId(lessonPath, 'InlineBlanks', childrenText): a
\* non-empty identifier that is a function of the text
GenerateStableExerciseId(text) == << "InlineBlanks", ":" >> \o text

ExerciseIdOf(node) == GenerateStableExerciseId(GetTextFromChildren(node))

\* the blanks the walker renders: the indices the user can act on
RenderedIndices ==
    LET calls == RenderContent(children, blanksData).calls
    IN  {calls[k].index : k \in 1..Len(calls)}

Op(name, index, was) == [op |-> name, idx |-> index, pre |-> was]

\* the first render: useMemo, the useState initialisers, both effects scheduled
Init ==
    /\ pfPc = "off"
    /\ pfIn = << >>
    /\ pfOut = << >>
    /\ mode \in {"type", "picker"}
    /\ children \in ContentsFor(mode)
    /\ optionsProp \in {"default", "passed"}
    /\ blanksData = ParseBlanks(GetTextFromChildren(children))
    /\ inputs = Fill(Len(blanksData), << >>)
    /\ touched = Fill(Len(blanksData), FALSE)
    /\ blurred = Fill(Len(blanksData), FALSE)
    /\ showHintFor = Fill(Len(blanksData), FALSE)
    /\ submitted = FALSE
    /\ showAnswers = FALSE
    /\ rcBlurred = blurred
    /\ rbTouched = touched
    /\ rbBlurred = blurred
    /\ exerciseIdRef = << >>
    /\ isCompleted = FALSE
    /\ pendIdEffect = TRUE
    /\ pendDoneEffect = TRUE
    /\ notified = 0
    /\ aborted = FALSE
    /\ changes = 0
    /\ lastOp = Op("mount", -1, FALSE)

\* events are handled between renders, after the passive effects have run
Ready == pfPc = "off" /\ ~aborted /\ ~pendIdEffect /\ ~pendDoneEffect

\* the render that follows a state change: renderContent is rebuilt when one
\* of [children, blanksData, inputs, submitted, touched] changed, renderBlank
\* when one of [mode, inputs, ..., options, showHints, showHintFor, toggleHint]
\* changed (a defaulted options is a new [] on every render); allCorrect is
\* evaluated, and the completion effect is scheduled when it changed
Rerender(rcChanged, rbChanged) ==
    /\ rcBlurred' = IF rcChanged THEN blurred' ELSE rcBlurred
    /\ rbTouched' = IF rbChanged \/ optionsProp = "default" THEN touched' ELSE rbTouched
    /\ rbBlurred' = IF rbChanged \/ optionsProp = "default" THEN blurred' ELSE rbBlurred
    /\ aborted' = (AllCorrectOf(inputs', blanksData') = "throw")
    /\ pendDoneEffect' = /\ AllCorrectOf(inputs', blanksData') # "throw"
                         /\ AllCorrectOf(inputs', blanksData') # AllCorrect

Bridge == << exerciseIdRef, isCompleted, pendIdEffect, notified, changes >>

HandleInputChange_KeepBlurred(index, value) ==
    /\ Ready
    /\ inputs' = SetAt(Spread(inputs), index, value, Hole)
    /\ touched' = SetAt(touched, index, TRUE, FALSE)
    /\ blurred' = blurred
    /\ lastOp' = Op("handleInputChange", index, BoolAt(blurred, index))
    /\ UNCHANGED << children, mode, optionsProp, blanksData, showHintFor, submitted,
                    showAnswers, Bridge, pfVars >>
    /\ Rerender(TRUE, TRUE)

\* setValue
HandleInputChange(index, value) ==
    /\ Ready
    /\ inputs' = SetAt(Spread(inputs), index, value, Hole)
    /\ touched' = SetAt(touched, index, TRUE, FALSE)
    /\ blurred' = SetAt(blurred, index, FALSE, FALSE)
    /\ lastOp' = Op("handleInputChange", index, BoolAt(blurred, index))
    /\ UNCHANGED << children, mode, optionsProp, blanksData, showHintFor, submitted,
                    showAnswers, Bridge, pfVars >>
    /\ Rerender(TRUE, TRUE)

HandleBlur_Touches(index) ==
    /\ Ready
    /\ blurred' = SetAt(blurred, index, TRUE, FALSE)
    /\ touched' = SetAt(touched, index, TRUE, FALSE)
    /\ lastOp' = Op("handleBlur", index, BoolAt(blurred, index))
    /\ UNCHANGED << children, mode, optionsProp, blanksData, inputs, showHintFor,
                    submitted, showAnswers, Bridge, pfVars >>
    /\ Rerender(FALSE, FALSE)

\* markBlurred
HandleBlur(index) ==
    /\ Ready
    /\ blurred' = SetAt(blurred, index, TRUE, FALSE)
    /\ lastOp' = Op("handleBlur", index, BoolAt(blurred, index))
    /\ UNCHANGED << children, mode, optionsProp, blanksData, inputs, touched, showHintFor,
                    submitted, showAnswers, Bridge, pfVars >>
    /\ Rerender(FALSE, FALSE)

\* submitAll
CheckAnswers ==
    /\ Ready
    /\ submitted' = TRUE
    /\ showAnswers' = FALSE
    /\ lastOp' = Op("checkAnswers", -1, FALSE)
    /\ UNCHANGED << children, mode, optionsProp, blanksData, inputs, touched, blurred,
                    showHintFor, Bridge, pfVars >>
    /\ Rerender(~submitted, FALSE)

\* there is something for reset to clear
Dirty ==
    \/ submitted
    \/ \E k \in 1..Len(inputs) : inputs[k] # << >>
    \/ \E k \in 1..Len(touched) : touched[k]

Reset_ClearBlurred ==
    /\ Ready
    /\ submitted' = FALSE
    /\ showAnswers' = FALSE
    /\ inputs' = Fill(Len(AnswersOf(blanksData)), << >>)
    /\ touched' = Fill(Len(AnswersOf(blanksData)), FALSE)
    /\ blurred' = Fill(Len(AnswersOf(blanksData)), FALSE)
    /\ lastOp' = Op("reset", -1, Dirty)
    /\ UNCHANGED << children, mode, optionsProp, blanksData, showHintFor,
                    Bridge, pfVars >>
    /\ Rerender(TRUE, TRUE)

Reset ==
    /\ Ready
    /\ submitted' = FALSE
    /\ showAnswers' = FALSE
    /\ inputs' = Fill(Len(AnswersOf(blanksData)), << >>)
    /\ touched' = Fill(Len(AnswersOf(blanksData)), FALSE)
    /\ lastOp' = Op("reset", -1, Dirty)
    /\ UNCHANGED << children, mode, optionsProp, blanksData, blurred, showHintFor,
                    Bridge, pfVars >>
    /\ Rerender(TRUE, TRUE)

ToggleHint(index) ==
    /\ Ready
    /\ showHintFor' = SetAt(showHintFor, index, ~BoolAt(showHintFor, index), FALSE)
    /\ lastOp' = Op("toggleHint", index, FALSE)
    /\ UNCHANGED << children, mode, optionsProp, blanksData, inputs, touched, blurred,
                    submitted, showAnswers, Bridge, pfVars >>
    /\ Rerender(FALSE, TRUE)

\* revealAll
ShowAllAnswers ==
    /\ Ready
    /\ inputs' = AnswersOf(blanksData)
    /\ submitted' = TRUE
    /\ showAnswers' = TRUE
    /\ lastOp' = Op("showAllAnswers", -1, FALSE)
    /\ UNCHANGED << children, mode, optionsProp, blanksData, touched, blurred, showHintFor,
                    Bridge, pfVars >>
    /\ Rerender(TRUE, TRUE)

\* the parent renders again and passes new children: the same content when
\* node = children (a new reference), other content otherwise.  The state
\* of useState survives; the memo and the id effect depend on children.
\* optionsFresh: the parent passed a new options array as well.
ChildrenChange(node, optionsFresh) ==
    /\ Ready
    /\ changes < MaxChildrenChanges
    /\ changes' = changes + 1
    /\ children' = node
    /\ blanksData' = ParseBlanks(GetTextFromChildren(node))
    /\ pendIdEffect' = TRUE
    /\ notified' = IF ExerciseIdOf(node) = ExerciseIdOf(children) THEN notified ELSE 0
    /\ lastOp' = Op(IF node = children THEN "childrenRef" ELSE "contentChange", -1, FALSE)
    /\ UNCHANGED << mode, optionsProp, inputs, touched, blurred, showHintFor,
                    submitted, showAnswers, exerciseIdRef, isCompleted, pfVars >>
    /\ Rerender(TRUE, optionsFresh)

FlushEffects_StaleRef(stored) ==
    /\ pfPc = "off"
    /\ ~aborted
    /\ pendIdEffect \/ pendDoneEffect
    /\ LET ref == IF pendIdEffect THEN ExerciseIdOf(children) ELSE exerciseIdRef
           fire == /\ pendDoneEffect
                   /\ AllCorrect = "true"
                   /\ exerciseIdRef # << >>
                   /\ ~isCompleted
           flag == IF fire THEN TRUE ELSE IF pendIdEffect THEN stored ELSE isCompleted
       IN  /\ exerciseIdRef' = ref
           /\ notified' = IF fire THEN notified + 1 ELSE notified
           /\ isCompleted' = flag
           /\ pendDoneEffect' = (flag # isCompleted)
    /\ pendIdEffect' = FALSE
    /\ UNCHANGED << children, mode, optionsProp, blanksData, inputs, touched, blurred,
                    showHintFor, submitted, showAnswers, rcBlurred, rbTouched,
                    rbBlurred, aborted, changes, lastOp, pfVars >>

\* the passive effects of the last commit, in the order of their declaration:
\* the exercise id effect (lines 72-78), then the completion effect (lines
\* 123-128), which reads allCorrect and isCompleted of that render and the
\* ref as the id effect left it.  stored is the answer of isExerciseComplete.
FlushEffects(stored) ==
    /\ pfPc = "off"
    /\ ~aborted
    /\ pendIdEffect \/ pendDoneEffect
    /\ LET ref == IF pendIdEffect THEN ExerciseIdOf(children) ELSE exerciseIdRef
           fire == pendDoneEffect /\ AllCorrect = "true" /\ ref # << >> /\ ~isCompleted
           flag == IF fire THEN TRUE ELSE IF pendIdEffect THEN stored ELSE isCompleted
       IN  /\ exerciseIdRef' = ref
           /\ notified' = IF fire THEN notified + 1 ELSE notified
           /\ isCompleted' = flag
           /\ pendDoneEffect' = (flag # isCompleted)
    /\ pendIdEffect' = FALSE
    /\ UNCHANGED << children, mode, optionsProp, blanksData, inputs, touched, blurred,
                    showHintFor, submitted, showAnswers, rcBlurred, rbTouched,
                    rbBlurred, aborted, changes, lastOp, pfVars >>

Next ==
    \/ \E index \in RenderedIndices :
           \E value \in Choices(index) : HandleInputChange(index, value)
    \/ \E index \in RenderedIndices : HandleBlur(index)
    \/ \E index \in RenderedIndices :
           blanksData[index + 1].hint # << >> /\ ToggleHint(index)
    \/ CheckAnswers
    \/ Reset
    \/ ShowAllAnswers
    \/ \E node \in ContentsFor(mode), optionsFresh \in BOOLEAN :
           ChildrenChange(node, optionsFresh)
    \/ \E stored \in BOOLEAN : FlushEffects(stored)

Spec == Init /\ [][Next]_vars

\* React runs the passive effects of a commit without waiting for an event
SpecLive == Init /\ [][Next]_vars /\ WF_vars(\E stored \in BOOLEAN : FlushEffects(stored))

-----------------------------------------------------------------------------
(* Harness for the pure functions: the parser on a text, the walker on a   *)
(* content tree.  The component is not mounted while the harness runs.     *)

NoOp == [op |-> "none", idx |-> -1, pre |-> FALSE]

Unmounted ==
    /\ children = << >>
    /\ mode = "type"
    /\ optionsProp = "default"
    /\ blanksData = << >>
    /\ inputs = << >>
    /\ touched = << >>
    /\ blurred = << >>
    /\ showHintFor = << >>
    /\ submitted = FALSE
    /\ showAnswers = FALSE
    /\ rcBlurred = << >>
    /\ rbTouched = << >>
    /\ rbBlurred = << >>
    /\ exerciseIdRef = << >>
    /\ isCompleted = FALSE
    /\ pendIdEffect = FALSE
    /\ pendDoneEffect = FALSE
    /\ notified = 0
    /\ aborted = FALSE
    /\ changes = 0
    /\ lastOp = NoOp

SeqsUpTo(A, n) == UNION {[1..k -> A] : k \in 0..n}

ParseAlphabet == {"[", "]", "|", "a", "\n"}

SampleText == << "[", "c", "a", "t", "|", "d", "o", "g", "|",
                 "h", "i", "n", "t", ":", "a", " ", "p", "e", "t", "]" >>

TwoHintsText == << "[", "a", "|", "h", "i", "n", "t", ":", "x", "|", "b", "|",
                   "h", "i", "n", "t", ":", "y", "]", "z", "[", "]" >>

ParseTexts == SeqsUpTo(ParseAlphabet, MaxTextLen) \cup {SampleText, TwoHintsText}

InitParse ==
    /\ pfPc = "parse"
    /\ pfIn \in ParseTexts
    /\ pfOut = << >>
    /\ Unmounted

\* const { blanksData } = useMemo(...) applied to the text pfIn
ParseStep ==
    /\ pfPc = "parse"
    /\ pfOut' = ParseBlanks(pfIn)
    /\ pfPc' = "parsed"
    /\ UNCHANGED << pfIn, uiVars >>

SpecParse == InitParse /\ [][ParseStep]_vars

LeafTexts == { << "[", "a", "]" >>, << "[", "a" >>, << "]" >>,
               << "b", "]", "[", "c", "]" >>, << "x" >>, << "[", "\n", "]" >> }

WalkNodes ==
    {TextLeaf(t) : t \in LeafTexts}
      \cup {Element(g, << TextLeaf(t) >>) : g \in {"b", "li"}, t \in LeafTexts}
      \cup {NumLeaf(<< "5" >>), Element("br", << >>)}

WalkTrees == UNION {[1..k -> WalkNodes] : k \in 1..MaxKids}

InitWalk ==
    /\ pfPc = "walk"
    /\ pfIn \in WalkTrees
    /\ pfOut = << >>
    /\ Unmounted

\* blanksData parsed from the flattened text, then renderContent on the tree
WalkStep ==
    /\ pfPc = "walk"
    /\ LET specs == ParseBlanks(GetTextFromChildren(pfIn))
       IN  pfOut' = [specs |-> specs, walk |-> RenderContent(pfIn, specs)]
    /\ pfPc' = "walked"
    /\ UNCHANGED << pfIn, uiVars >>

SpecWalk == InitWalk /\ [][WalkStep]_vars

\* Array.prototype.sort() without a comparator orders strings by their
\* UTF-16 code units: the characters of the model, in that order
CodeUnits == << "\t", "\n", "\r", " ", "-", "5", ":" >> \o UpperChars
               \o << "[", "]" >> \o LowerChars \o << "|" >>

CodeUnit(c) == CHOOSE k \in 1..Len(CodeUnits) : CodeUnits[k] = c

\* a sorts before b
RECURSIVE Before(_, _)
Before(a, b) ==
    IF b = << >> THEN FALSE
    ELSE IF a = << >> THEN TRUE
    ELSE IF Head(a) = Head(b) THEN Before(Tail(a), Tail(b))
    ELSE CodeUnit(Head(a)) < CodeUnit(Head(b))

\* new Set(array): the first occurrence of each value, in insertion order
RECURSIVE Dedupe(_, _)
Dedupe(arr, seen) ==
    IF arr = << >> THEN << >>
    ELSE IF Head(arr) \in seen THEN Dedupe(Tail(arr), seen)
    ELSE << Head(arr) >> \o Dedupe(Tail(arr), seen \cup {Head(arr)})

Insert(sorted, x) ==
    LET k == Cardinality({i \in 1..Len(sorted) : ~Before(x, sorted[i])})
    IN  SubSeq(sorted, 1, k) \o << x >> \o SubSeq(sorted, k + 1, Len(sorted))

RECURSIVE SortStrings(_)
SortStrings(arr) ==
    IF arr = << >> THEN << >> ELSE Insert(SortStrings(Tail(arr)), Head(arr))

\* renderBlank, lines 135-136
DropdownOptions(data, opts) ==
    LET currentOptions == IF Len(data.localOptions) > 0 THEN data.localOptions ELSE opts
    IN  SortStrings(Dedupe(Append(currentOptions, data.answer), {}))

PickWords == { << "a" >>, << "B" >>, << "a", "b" >> }

InitPick ==
    /\ pfPc = "pick"
    /\ pfIn \in [answer : PickWords,
                 localOptions : SeqsUpTo(PickWords, MaxOptions),
                 options : SeqsUpTo(PickWords, MaxOptions)]
    /\ pfOut = << >>
    /\ Unmounted

\* the <option>s renderBlank offers for the blank pfIn under the options prop
PickStep ==
    /\ pfPc = "pick"
    /\ pfOut' = DropdownOptions(pfIn, pfIn.options)
    /\ pfPc' = "picked"
    /\ UNCHANGED << pfIn, uiVars >>

SpecPick == InitPick /\ [][PickStep]_vars

\* text.split('\n')
RECURSIVE SplitLinesFrom(_, _)
SplitLinesFrom(s, p) ==
    LET ends == {i \in p..Len(s) : s[i] = "\n"}
    IN  IF ends = {}
        THEN << SubSeq(s, p, Len(s)) >>
        ELSE << SubSeq(s, p, Min(ends) - 1) >> \o SplitLinesFrom(s, Min(ends) + 1)

SplitLines(s) == SplitLinesFrom(s, 1)

\* lines.join('\n')
RECURSIVE JoinLines(_)
JoinLines(lines) ==
    IF Len(lines) = 1 THEN lines[1]
    ELSE lines[1] \o << "\n" >> \o JoinLines(Tail(lines))

\* the class [\s\-:|] of the separator pattern
IsSeparatorChar(c) == IsSpace(c) \/ c \in {"-", ":", "|"}

SeparatorTest_NoIndent(line) ==
    \E j \in 3..Len(line) :
        /\ line[1] = "|"
        /\ line[j] = "|"
        /\ \A k \in 2..(j - 1) : IsSeparatorChar(line[k])
        /\ \A k \in (j + 1)..Len(line) : IsSpace(line[k])

\* /^\s*\|[\s\-:|]+\|\s*$/.test(line)
SeparatorTest(line) ==
    \E i, j \in 1..Len(line) :
        /\ i + 1 < j
        /\ line[i] = "|"
        /\ line[j] = "|"
        /\ \A k \in 1..(i - 1) : IsSpace(line[k])
        /\ \A k \in (i + 1)..(j - 1) : IsSeparatorChar(line[k])
        /\ \A k \in (j + 1)..Len(line) : IsSpace(line[k])

\* hasPipes && hasSeparator
TableDetected(text) ==
    LET lines == SplitLines(text)
    IN  /\ \E k \in 1..Len(lines) : \E i \in 1..Len(lines[k]) : lines[k][i] = "|"
        /\ \E k \in 1..Len(lines) : SeparatorTest(lines[k])

\* line.match(/^\s*/)[0].length
IndentOf(line) ==
    LET stops == {k \in 1..Len(line) : ~IsSpace(line[k])}
    IN  IF stops = {} THEN Len(line) ELSE Min(stops) - 1

\* the useMemo of lines 81-104: minIndent is Infinity when indents is empty
Preprocess(text) ==
    LET lines == SplitLines(text)
        tableDetected == TableDetected(text)
        indents == {IndentOf(lines[k]) :
                       k \in {n \in 1..Len(lines) : Len(Trim(lines[n])) # 0}}
        minIndent == Min(indents)
        dedented == JoinLines([k \in 1..Len(lines) |->
                                  IF Len(lines[k]) >= minIndent
                                  THEN SubSeq(lines[k], minIndent + 1, Len(lines[k]))
                                  ELSE lines[k]])
    IN  IF tableDetected \/ (\E i \in 1..Len(text) : text[i] = "\n")
        THEN IF indents # {} /\ minIndent > 0
             THEN [rawText |-> dedented, isTable |-> tableDetected]
             ELSE [rawText |-> text, isTable |-> tableDetected]
        ELSE [rawText |-> text, isTable |-> FALSE]

DecimalDigits == << "0", "1", "2", "3", "4", "5", "6", "7", "8", "9" >>

Radix == 10

\* `${index}`
RECURSIVE NumberToString(_)
NumberToString(n) ==
    IF n < Radix THEN << DecimalDigits[n + 1] >>
    ELSE NumberToString(n \div Radix) \o << DecimalDigits[(n % Radix) + 1] >>

\* parseInt(indexStr) on a string of decimal digits
RECURSIVE ParseInt(_)
ParseInt(str) ==
    IF str = << >> THEN 0
    ELSE ParseInt(SubSeq(str, 1, Len(str) - 1)) * Radix
           + ((CHOOSE d \in 1..Radix : DecimalDigits[d] = str[Len(str)]) - 1)

\* <span data-blank="index"></span>
Marker(index) == [kind |-> "marker", text |-> NumberToString(index)]

Literal(part) == [kind |-> "text", text |-> part]

\* parts.map of processedMarkdown (lines 214-220), blankIndex threaded
RECURSIVE MarkParts(_, _)
MarkParts(parts, blankIndex) ==
    IF parts = << >> THEN << >>
    ELSE IF IsBlankPart(Head(parts))
         THEN << Marker(blankIndex) >> \o MarkParts(Tail(parts), blankIndex + 1)
         ELSE << Literal(Head(parts)) >> \o MarkParts(Tail(parts), blankIndex)

ProcessedMarkdown(isTable, rawText) ==
    IF ~isTable THEN << >> ELSE MarkParts(SplitBlanks(rawText), 0)

\* InlineMarkdownBlank: what a preserved marker renders, given blanksData
\* and inputs; "null" when the index has no spec
InlineMarkdownBlank(indexStr, data, inp) ==
    LET index == ParseInt(indexStr)
    IN  IF index >= Len(data)
        THEN [kind |-> "null"]
        ELSE [kind |-> "blank", index |-> index, data |-> data[index + 1],
              value |-> ValueIn(inp, index)]

TableAlphabet == {"|", "-", " ", "a", "\n"}

TableOne == << "|", "[", "a", "]", "|", "\n", "|", "-", "|" >>

TableTwo == << " ", " ", "|", "[", "a", "|", "b", "]", "|", "[", "c", "]", "|", "\n",
               " ", " ", "|", ":", "-", "|", "-", "|" >>

TableSpanning == << " ", "[", "\n", " ", "|", "-", "|", "\n", " ", "]" >>

TableTexts == SeqsUpTo(TableAlphabet, MaxTableLen) \cup {TableOne, TableTwo, TableSpanning}

InitTable ==
    /\ pfPc = "table"
    /\ pfIn \in TableTexts
    /\ pfOut = << >>
    /\ Unmounted

\* the first render of InlineBlanks on the one string child pfIn: the parse
\* of useBlanks, the rawText/isTable memo and processedMarkdown
TableStep ==
    /\ pfPc = "table"
    /\ LET text == GetTextFromChildren(<< TextLeaf(pfIn) >>)
           pre == Preprocess(text)
       IN  pfOut' = [isTable |-> pre.isTable,
                     rawText |-> pre.rawText,
                     processed |-> ProcessedMarkdown(pre.isTable, pre.rawText),
                     specs |-> ParseBlanks(text)]
    /\ pfPc' = "tabled"
    /\ UNCHANGED << pfIn, uiVars >>

SpecTable == InitTable /\ [][TableStep]_vars

-----------------------------------------------------------------------------
(* Claims about the parser and the walker *)

\* the captured matches of the split: parts 2, 4, ...
Tokens(text) ==
    LET parts == SplitBlanks(text)
    IN  [k \in 1..((Len(parts) - 1) \div 2) |-> parts[2 * k]]

Inside(token) == SubSeq(token, 2, Len(token) - 1)

IsHintItem(x) == StartsWith(x, HintPrefix)

IsOptionItem(x) == ~IsHintItem(x)

\* the pipe-splitting rule, stated on one token
TokenSpecOK(token, spec) ==
    LET items == SplitPipe(Inside(token))
        hints == {i \in 2..Len(items) : IsHintItem(items[i])}
    IN  /\ spec.answer = items[1]
        /\ spec.localOptions = SelectSeq(Tail(items), IsOptionItem)
        /\ spec.hint = IF hints = {} THEN << >>
                       ELSE << SubSeq(items[Max(hints)], Len(HintPrefix) + 1,
                                      Len(items[Max(hints)])) >>

\* C10: parse(T) has exactly one spec per bracket token of T, in order, each
\* extracted by the pipe-splitting rule, and nothing for literal text.
C10_ParsePerToken ==
    pfPc = "parsed" =>
        /\ Len(pfOut) = Len(Tokens(pfIn))
        /\ \A k \in 1..Len(Tokens(pfIn)) :
               k <= Len(pfOut) /\ TokenSpecOK(Tokens(pfIn)[k], pfOut[k])

\* the spec's own example parses as documented
C10_SampleParsed ==
    (pfPc = "parsed" /\ pfIn = SampleText) =>
        pfOut = << [answer |-> << "c", "a", "t" >>,
                    localOptions |-> << << "d", "o", "g" >> >>,
                    hint |-> << << "a", " ", "p", "e", "t" >> >>] >>

\* blank tokens of the text leaves, depth first, left to right
RECURSIVE LeafTokens(_)
LeafTokens(nodes) ==
    IF nodes = << >>
    THEN << >>
    ELSE LET n == Head(nodes)
         IN  (IF n.tag = "#text" THEN Tokens(n.text)
              ELSE IF IsElement(n) THEN LeafTokens(n.kids)
              ELSE << >>)
               \o LeafTokens(Tail(nodes))

\* C9: the walker renders as many blanks as the parser made specs, and the
\* k-th blank token of the leaves is rendered with index k and with the spec
\* parsed from that very token.
C9_WalkerAligned ==
    pfPc = "walked" =>
        LET toks == LeafTokens(pfIn)
            calls == pfOut.walk.calls
        IN  /\ Len(calls) = Len(pfOut.specs)
            /\ Len(calls) = Len(toks)
            /\ \A k \in 1..Len(toks) :
                   k <= Len(calls)
                     => /\ calls[k].index = k - 1
                        /\ calls[k].token = toks[k]
                        /\ calls[k].data.answer = SplitPipe(Inside(toks[k]))[1]

-----------------------------------------------------------------------------
(* Claims about the component *)

\* trim() and toLowerCase(), the normalisation of section 4.4
Normalize(str) == ToLowerCase(Trim(str))

\* C1: for one exercise identity markExerciseComplete is invoked at most
\* once, and the flag isCompleted never goes back from true to false while
\* that identity stays mounted.
C1_NotifiedOnce ==
    [][/\ notified' <= 1
       /\ (isCompleted /\ ExerciseIdOf(children') = ExerciseIdOf(children))
              => isCompleted']_vars

\* the trimmed, lower-cased value is a non-empty proper prefix of the
\* lower-cased answer
ProperPrefix(index) ==
    /\ Len(Trim(Value(index))) > 0
    /\ Len(Trim(Value(index))) < Len(AnswerOf(index))
    /\ StartsWith(ToLowerCase(AnswerOf(index)), Normalize(Value(index)))

\* C2: a blank that is neither submitted nor blurred and holds a non-empty
\* proper prefix of its answer is not reported wrong, in the tree-render
\* status and in the inline display.
C2_PartialMatchNotWrong ==
    \A index \in BlankIndices :
        (~submitted /\ ~BoolAt(blurred, index) /\ ProperPrefix(index))
            => (~TreeIsWrong(index) /\ ~InlineIsWrong(index))

\* a prefix was typed into a blank, which now shows validation on the tree
\* path and is spared by the partial match alone
C2_Witness ==
    \E index \in BlankIndices :
        /\ lastOp = Op("handleInputChange", index, FALSE)
        /\ ~submitted
        /\ ~BoolAt(blurred, index)
        /\ ProperPrefix(index)
        /\ TreeShowValidation(index)
        /\ ~TreeIsCorrect(index)

\* C3: after setValue(i, v), v non-blank and not the answer, followed by
\* markBlurred(i), the render reports blank i as wrong, in the tree-render
\* status and in the inline display.
C3_BlurReportsWrong ==
    \A index \in BlankIndices :
        (/\ lastOp.op = "handleBlur"
         /\ lastOp.idx = index
         /\ BoolAt(touched, index)
         /\ Trim(Value(index)) # << >>
         /\ ~TreeIsCorrect(index))
            => (TreeIsWrong(index) /\ InlineIsWrong(index))

\* the value is blank, or a prefix of the answer (the answer included)
Neutral(index) ==
    \/ Trim(Value(index)) = << >>
    \/ StartsWith(ToLowerCase(AnswerOf(index)), Normalize(Value(index)))

\* C4, as stated: after markBlurred(i) then setValue(i, v), for any v, with
\* submitted false, blurred[i] is false and blank i is not reported wrong.
C4_AnyValueNeutral ==
    (lastOp.op = "handleInputChange" /\ lastOp.pre /\ ~submitted)
        => (~BoolAt(blurred, lastOp.idx) /\ ~TreeIsWrong(lastOp.idx))

\* C4, amended: after markBlurred(i) then setValue(i, v), blurred[i] is
\* false; a v that is neither blank nor a prefix of the answer is reported
\* wrong at once on the tree path; and while a blank is not blurred, the
\* inline display reports no error, and the tree path none either provided
\* submitted is false and the value is blank or a prefix of the answer.
C4_PrefixNeutral ==
    /\ (lastOp.op = "handleInputChange" /\ lastOp.pre)
           => ~BoolAt(blurred, lastOp.idx)
    /\ (lastOp.op = "handleInputChange" /\ ~Neutral(lastOp.idx))
           => TreeIsWrong(lastOp.idx)
    /\ \A index \in BlankIndices :
           ~BoolAt(blurred, index) => ~InlineIsWrong(index)
    /\ \A index \in BlankIndices :
           (~submitted /\ ~BoolAt(blurred, index) /\ Neutral(index))
               => ~TreeIsWrong(index)

\* a prefix of the answer was typed into a blank that was blurred
C4_Witness ==
    /\ lastOp.op = "handleInputChange"
    /\ lastOp.pre
    /\ ~submitted
    /\ IsPartialMatch(lastOp.idx)
    /\ ~TreeIsCorrect(lastOp.idx)
    /\ ~TreeIsWrong(lastOp.idx)

Defaults(n) ==
    /\ inputs = Fill(n, << >>)
    /\ touched = Fill(n, FALSE)
    /\ blurred = Fill(n, FALSE)
    /\ showHintFor = Fill(n, FALSE)

\* C5: the four runtime arrays always have as many entries as blanksData,
\* and a change of children that alters the number of blanks leaves every
\* entry at its default.
C5_ArraysFollowBlanks ==
    [][/\ Len(inputs') = Len(blanksData')
       /\ Len(touched') = Len(blanksData')
       /\ Len(blurred') = Len(blanksData')
       /\ Len(showHintFor') = Len(blanksData')
       /\ Len(blanksData') # Len(blanksData) => Defaults(Len(blanksData))']_vars

\* C6: allCorrect is true exactly when every blank of the parsed specs
\* holds a value whose normal form is that of its answer.
C6_AllCorrectIffEveryBlank ==
    (pfPc = "off" /\ ~aborted) =>
        ((AllCorrect = "true")
            <=> \A index \in BlankIndices :
                    Normalize(Value(index)) = Normalize(AnswerOf(index)))

\* C7: after revealAll, with every authored answer non-empty, submitted is
\* true, every value is its blank's answer, and allCorrect is true.
C7_RevealAllCorrect ==
    (/\ lastOp.op = "showAllAnswers"
     /\ \A index \in BlankIndices : AnswerOf(index) # << >>)
        => /\ submitted
           /\ Len(inputs) = Len(blanksData)
           /\ \A index \in BlankIndices : Value(index) = AnswerOf(index)
           /\ AllCorrect = "true"

\* C8: after submitAll, validation is shown for every blank on the tree
\* path, in the inline display and on the table path.
C8_SubmitShowsValidation ==
    lastOp.op = "checkAnswers" =>
        \A index \in BlankIndices :
            /\ TreeShowValidation(index)
            /\ InlineShowValidation(index)
            /\ TableShowValidation(index)

-----------------------------------------------------------------------------
(* Claims about the picker *)

Range(arr) == {arr[k] : k \in 1..Len(arr)}

\* C11: the choices of a picker blank are exactly the union of its
\* localOptions, the global options and its answer, each once, in ascending
\* order.
C11_ChoicesAreUnion ==
    pfPc = "picked" =>
        /\ Range(pfOut) = Range(pfIn.localOptions) \cup Range(pfIn.options)
                             \cup {pfIn.answer}
        /\ \A i, j \in 1..Len(pfOut) : i < j => Before(pfOut[i], pfOut[j])

-----------------------------------------------------------------------------
(* Claims about the operations of the hook *)

\* C12: no sequence of operations reaches an aborting state: every render,
\* the evaluation of allCorrect included, completes without an exception.
C12_NeverAborts == ~aborted

\* C14: reset() sets submitted to false and leaves one empty value and one
\* false touched flag per current blank, and changes no blurred flag and no
\* hint flag.
C14_ResetFrame ==
    [][lastOp'.op = "reset"
          => /\ ~submitted'
             /\ inputs' = Fill(Len(blanksData'), << >>)
             /\ touched' = Fill(Len(blanksData'), FALSE)
             /\ blurred' = blurred
             /\ showHintFor' = showHintFor]_vars

\* reset had something to clear, and a blurred flag survived it
C14_Witness ==
    /\ lastOp = Op("reset", -1, TRUE)
    /\ \E index \in BlankIndices : BoolAt(blurred, index)

\* what arr[k] evaluates to: a hole reads as undefined
ReadAt(arr, k) == IF k < Len(arr) /\ arr[k + 1] # Hole THEN arr[k + 1] ELSE Undefined

\* index i exists in the three arrays setValue writes
Existing(index) == index < Len(inputs) /\ index < Len(touched) /\ index < Len(blurred)

\* C15: setValue(i, v) on an existing index sets value[i] = v, touched[i] =
\* true, blurred[i] = false and changes no other entry, no hint flag, not
\* submitted and no length; markBlurred(i) sets blurred[i] and changes
\* nothing else, and a second markBlurred(i) changes nothing.
C15_SetValueFrame ==
    [][/\ \A index \in RenderedIndices : \A value \in Choices(index) :
              (Existing(index) /\ HandleInputChange(index, value))
                  => /\ inputs'[index + 1] = value
                     /\ touched'[index + 1] = TRUE
                     /\ blurred'[index + 1] = FALSE
                     /\ Len(inputs') = Len(inputs)
                     /\ Len(touched') = Len(touched)
                     /\ Len(blurred') = Len(blurred)
                     /\ \A k \in 0..(Len(inputs) - 1) :
                            k # index => ReadAt(inputs', k) = ReadAt(inputs, k)
                     /\ \A k \in 0..(Len(touched) - 1) :
                            k # index => touched'[k + 1] = touched[k + 1]
                     /\ \A k \in 0..(Len(blurred) - 1) :
                            k # index => blurred'[k + 1] = blurred[k + 1]
                     /\ showHintFor' = showHintFor
                     /\ submitted' = submitted
       /\ \A index \in RenderedIndices :
              HandleBlur(index)
                  => /\ BoolAt(blurred', index)
                     /\ \A k \in 0..(Len(blurred') - 1) :
                            k # index => BoolAt(blurred', k) = BoolAt(blurred, k)
                     /\ inputs' = inputs
                     /\ touched' = touched
                     /\ showHintFor' = showHintFor
                     /\ submitted' = submitted
                     /\ SetAt(blurred', index, TRUE, FALSE) = blurred']_vars

\* a value was set in a blank that was blurred, all arrays as sized at the
\* mount, while the other blank holds a value of its own
C15_Witness ==
    /\ lastOp.op = "handleInputChange"
    /\ lastOp.pre
    /\ changes = 0
    /\ \E k \in BlankIndices : k # lastOp.idx /\ Value(k) # << >>

\* C20: on each render path no blank is reported correct-and-validated and
\* wrong at once, and while submitted is false a blank whose value is empty
\* or white space is not reported wrong.
C20_StatusConsistent ==
    \A index \in BlankIndices :
        /\ ~(TreeShowValidation(index) /\ TreeIsCorrect(index) /\ TreeIsWrong(index))
        /\ ~(InlineIsRight(index) /\ InlineIsWrong(index))
        /\ ~(TableShowValidation(index) /\ TreeIsCorrect(index) /\ TableIsWrong(index))
        /\ (~submitted /\ Trim(Value(index)) = << >>)
               => (~TreeIsWrong(index) /\ ~InlineIsWrong(index) /\ ~TableIsWrong(index))

\* a touched and blurred blank holds an empty value while nothing is submitted
C20_Witness ==
    \E index \in BlankIndices :
        /\ ~submitted
        /\ BoolAt(touched, index)
        /\ BoolAt(blurred, index)
        /\ BoolAt(rcBlurred, index)
        /\ Trim(Value(index)) = << >>
        /\ ~TreeIsCorrect(index)

-----------------------------------------------------------------------------
(* Claims about the table path *)

\* a separator row: up to white space around it, a line bounded by '|' whose
\* cells, at least one character in all, hold only '-', ':' and white space
IsSeparatorRow(line) ==
    LET t == Trim(line)
        cells == SplitPipe(SubSeq(t, 2, Len(t) - 1))
    IN  /\ Len(t) >= 3
        /\ t[1] = "|"
        /\ t[Len(t)] = "|"
        /\ \A c \in 1..Len(cells) : \A i \in 1..Len(cells[c]) :
               cells[c][i] \in {"-", ":"} \/ IsSpace(cells[c][i])

HasPipeLine(text) ==
    \E k \in 1..Len(SplitLines(text)) : "|" \in Range(SplitLines(text)[k])

HasSeparatorRow(text) ==
    \E k \in 1..Len(SplitLines(text)) : IsSeparatorRow(SplitLines(text)[k])

\* pad put in front of every line of text
Indented(text, pad) ==
    JoinLines([k \in 1..Len(SplitLines(text)) |-> pad \o SplitLines(text)[k]])

\* C13: isTable is true exactly when the text has a line containing '|' and
\* a line that is a separator row; pipes without a separator row give false,
\* and a common indentation put in front of every line changes nothing.
C13_TableDetection ==
    pfPc = "tabled" =>
        /\ pfOut.isTable <=> (HasPipeLine(pfIn) /\ HasSeparatorRow(pfIn))
        /\ (HasPipeLine(pfIn) /\ ~HasSeparatorRow(pfIn)) => ~pfOut.isTable
        /\ \A pad \in {<< " " >>, << " ", " " >>, << "\t" >>} :
               Preprocess(Indented(pfIn, pad)).isTable = pfOut.isTable

\* an indented text was detected as a table
C13_Witness ==
    /\ pfPc = "tabled"
    /\ pfOut.isTable
    /\ pfIn[1] = " "
    /\ \E k \in 1..Len(SplitLines(pfIn)) :
           "|" \in Range(SplitLines(pfIn)[k]) /\ ~IsSeparatorRow(SplitLines(pfIn)[k])

\* the markers of the processed text, in order
Markers(processed) == SelectSeq(processed, LAMBDA x : x.kind = "marker")

\* C18: on the table path the k-th blank token of the dedented text is
\* replaced by the marker of index k, there are as many markers as parsed
\* specs, marker k resolves to spec k, the spec parsed from that token, and
\* to value k, and a marker without a spec renders nothing.
C18_MarkersAligned ==
    (pfPc = "tabled" /\ pfOut.isTable) =>
        LET toks == Tokens(pfOut.rawText)
            marks == Markers(pfOut.processed)
            vals == Fill(Len(pfOut.specs), << "v" >>)
        IN  /\ Len(marks) = Len(toks)
            /\ Len(marks) = Len(pfOut.specs)
            /\ \A k \in 1..Len(pfOut.processed) :
                   (k % 2 = 0) <=> (pfOut.processed[k].kind = "marker")
            /\ \A k \in 1..Len(marks) :
                   /\ marks[k] = Marker(k - 1)
                   /\ LET shown == InlineMarkdownBlank(marks[k].text, pfOut.specs, vals)
                      IN  IF k > Len(pfOut.specs)
                          THEN shown.kind = "null"
                          ELSE /\ shown.kind = "blank"
                               /\ shown.index = k - 1
                               /\ shown.data = pfOut.specs[k]
                               /\ k <= Len(toks) => shown.data = ParseBlank(toks[k])

\* on texts whose bracket pairs do not span lines the table path is aligned
C18_OneLineTokensAligned ==
    (pfPc = "tabled" /\ pfIn \in {TableOne, TableTwo}) =>
        (pfOut.isTable /\ Len(pfOut.specs) > 0 /\ C18_MarkersAligned)

-----------------------------------------------------------------------------
(* Claims about the walker's output *)

\* the parts of the text leaves that the walker's test takes for a blank,
\* depth first, left to right
RECURSIVE BlankParts(_)
BlankParts(nodes) ==
    IF nodes = << >>
    THEN << >>
    ELSE LET n == Head(nodes)
         IN  (IF n.tag = "#text" THEN SelectSeq(SplitBlanks(n.text), IsBlankPart)
              ELSE IF IsElement(n) THEN BlankParts(n.kids)
              ELSE << >>)
               \o BlankParts(Tail(nodes))

\* the tokens of the rendered blanks of an output, depth first, left to right
RECURSIVE OutBlanks(_)
OutBlanks(nodes) ==
    IF nodes = << >>
    THEN << >>
    ELSE LET n == Head(nodes)
         IN  (IF n.tag = "#blank" THEN << n.text >>
              ELSE IF IsElement(n) THEN OutBlanks(n.kids)
              ELSE << >>)
               \o OutBlanks(Tail(nodes))

\* an output with every rendered blank put back as the text it replaced
RECURSIVE Unblank(_)
Unblank(nodes) ==
    [k \in 1..Len(nodes) |->
        IF nodes[k].tag = "#blank" THEN TextLeaf(nodes[k].text)
        ELSE IF IsElement(nodes[k]) THEN Element(nodes[k].tag, Unblank(nodes[k].kids))
        ELSE nodes[k]]

\* adjacent text leaves joined, at every level
RECURSIVE MergeText(_)
MergeText(nodes) ==
    IF nodes = << >>
    THEN << >>
    ELSE LET n == Head(nodes)
             rest == MergeText(Tail(nodes))
         IN  IF n.tag = "#text"
             THEN IF rest # << >> /\ Head(rest).tag = "#text"
                  THEN << TextLeaf(n.text \o Head(rest).text) >> \o Tail(rest)
                  ELSE << n >> \o rest
             ELSE IF IsElement(n)
                  THEN << Element(n.tag, MergeText(n.kids)) >> \o rest
                  ELSE << n >> \o rest

\* C16: a bracketed part met once the counter has reached specs.length is
\* emitted as its raw text, with no renderBlank call and no advance of the
\* counter; renderBlank is only called with an index in 0..specs.length-1.
C16_FailSoftOverrun ==
    pfPc = "walked" =>
        LET met == BlankParts(pfIn)
            calls == pfOut.walk.calls
            n == Len(pfOut.specs)
        IN  /\ \A k \in 1..Len(calls) : calls[k].index \in 0..(n - 1)
            /\ Len(calls) = Min({Len(met), n})
            /\ pfOut.walk.ctr = Len(calls)
            /\ OutBlanks(pfOut.walk.out) = SubSeq(met, 1, Len(calls))
            /\ MergeText(Unblank(pfOut.walk.out)) = MergeText(pfIn)

\* the walker met a bracketed part when no spec was left
C16_Witness ==
    /\ pfPc = "walked"
    /\ Len(BlankParts(pfIn)) > Len(pfOut.specs)
    /\ Len(OutBlanks(pfOut.walk.out)) = Len(pfOut.specs)

\* C17: the output has the elements of the input, same tags, nesting and
\* order, with every literal text segment unchanged in its place, elements
\* without children unchanged, and only blank tokens of the text leaves
\* replaced.
C17_TreePreserved ==
    pfPc = "walked" =>
        /\ MergeText(Unblank(pfOut.walk.out)) = MergeText(pfIn)
        /\ StartsWith(LeafTokens(pfIn), OutBlanks(pfOut.walk.out))

\* C17 without its last part: elements and text are kept in place
C17_StructureKept ==
    pfPc = "walked" => MergeText(Unblank(pfOut.walk.out)) = MergeText(pfIn)

-----------------------------------------------------------------------------
(* Claims about the completion bridge *)

\* C19: while no exercise identifier is resolved no completion is notified,
\* and when allCorrect is true with no identifier resolved and nothing
\* notified, markExerciseComplete is eventually invoked, by the effects
\* alone.
C19_DeferredCompletion ==
    /\ [](exerciseIdRef = << >> => notified = 0)
    /\ (pfPc = "off" /\ exerciseIdRef = << >> /\ AllCorrect = "true" /\ notified = 0)
           ~> (exerciseIdRef # << >> /\ notified > 0)

\* the completion was notified by the effects of the mount, before any event
C19_Witness ==
    /\ lastOp.op = "mount"
    /\ exerciseIdRef # << >>
    /\ AllCorrect = "true"
    /\ notified = 1

\* C21: markExerciseComplete is invoked only after a user input event of
\* the current mount, so while no operation has followed the mount, whatever
\* the progress store answers and even for content without blanks, no
\* completion is notified.
C21_NoNotifyAtMount == lastOp.op = "mount" => notified = 0

====
